---------------------------- MODULE Spec2Model ----------------------------
(***************************************************************************)
(* Model of mem_stat.py: a single-pass script that runs vm_stat, sysctl    *)
(* and vmmetrics, parses their output into the dictionary `metrics` and    *)
(* prints three tables.                                                    *)
(*                                                                         *)
(* Python strings are TLA+ strings (sequences of characters: Len, SubSeq   *)
(* and \o apply).  Python indices are 0-based and are kept 0-based in the  *)
(* operators that mirror str.find and slicing.  Python integers are        *)
(* unbounded; the inputs drawn below keep every intermediate value inside  *)
(* the range of the model checker's integers.                              *)
(***************************************************************************)
EXTENDS Integers, Sequences, FiniteSets, TLC

VARIABLES
  pc,          \* position of the script
  running,     \* set of child processes that were started and not yet waited for
  spawned,     \* argument lists of the children started so far, in order
  child,       \* what the child started last writes to its stdout, and how it exits
  returncode,  \* exit status of each child waited for (Popen.returncode, never read)
  lines,       \* the variable `lines` of vmMetrics
  metrics,     \* the dictionary `metrics`
  output,      \* the lines printed on standard output so far
  exc,         \* the exception that ended the run, "" if none
  size,        \* argument of prettySize / swap numbers under test (pure specifications)
  text,        \* argument line of extractSwapStats under test
  result       \* value returned by the function under test

vars == <<pc, running, spawned, child, returncode, lines, metrics, output, exc,
          size, text, result>>

-----------------------------------------------------------------------------
(* Python built-ins used by the script *)

Min(S) == CHOOSE x \in S : \A y \in S : x <= y

\* the element of a one-element set; The({e(x) : x \in {v}}) is e(v) with v
\* evaluated once, however often e uses it
The(S) == CHOOSE x \in S : TRUE

Max2(a, b) == IF a >= b THEN a ELSE b

\* s[i] for 0 <= i < len(s)
At(s, i) == SubSeq(s, i + 1, i + 1)

\* s[a:b] for a >= 0; a negative b counts from the end, as in Python
Slice(s, a, b) ==
  LET n  == Len(s)
      hi == IF b < 0 THEN Max2(n + b, 0) ELSE IF b > n THEN n ELSE b
  IN  IF a >= hi THEN "" ELSE SubSeq(s, a + 1, hi)

\* s.find(sub, start): lowest index >= start where sub occurs, -1 if none
Find(s, sub, start) ==
  LET n == Len(s)
      m == Len(sub)
      at == {i \in start..(n - m) : SubSeq(s, i + 1, i + m) = sub}
  IN  IF at = {} THEN -1 ELSE Min(at)

\* the characters matched by \s and removed by str.strip()
Whitespace == {" ", "\t", "\n", "\r", "\f"}

\* s.strip(chars) / s.strip(): remove the characters of cs from both ends
StripChars(s, cs) ==
  LET n    == Len(s)
      keep == {i \in 0..(n - 1) : At(s, i) \notin cs}
  IN  IF keep = {} THEN ""
      ELSE SubSeq(s, Min(keep) + 1, n - Min({n - 1 - i : i \in keep}))

Strip(s) == StripChars(s, Whitespace)

\* s[start:].split('\n')
RECURSIVE SplitFrom(_, _)
SplitFrom(s, start) ==
  The({IF p = -1 THEN <<Slice(s, start, Len(s))>>
       ELSE <<Slice(s, start, p)>> \o SplitFrom(s, p + 1) : p \in {Find(s, "\n", start)}})

\* s.split('\n')
SplitLines(s) == SplitFrom(s, 0)

\* end of the whitespace run that starts at index i
RECURSIVE SkipSpace(_, _)
SkipSpace(s, i) ==
  IF i < Len(s) /\ At(s, i) \in Whitespace THEN SkipSpace(s, i + 1) ELSE i

\* where the separator ':[\s]+' matches first at or after start, -1 if nowhere
separatorSearch(s, start) ==
  The({IF at = {} THEN -1 ELSE Min(at) :
       at \in {{i \in start..(Len(s) - 2) :
                  At(s, i) = ":" /\ At(s, i + 1) \in Whitespace}}})

\* separator.split(s[start:]) with separator = re.compile(':[\s]+')
RECURSIVE separatorSplitFrom(_, _)
separatorSplitFrom(s, start) ==
  The({IF p = -1 THEN <<Slice(s, start, Len(s))>>
       ELSE <<Slice(s, start, p)>> \o separatorSplitFrom(s, SkipSpace(s, p + 1)) :
       p \in {separatorSearch(s, start)}})

separatorSplit(s) == separatorSplitFrom(s, 0)

Digits == <<"0", "1", "2", "3", "4", "5", "6", "7", "8", "9">>

IsDigit(c) == \E d \in 1..10 : Digits[d] = c

DigitVal(c) == (CHOOSE d \in 1..10 : Digits[d] = c) - 1

AllDigits(s) == Len(s) > 0 /\ \A i \in 0..(Len(s) - 1) : IsDigit(At(s, i))

\* value of the first k characters of a string of decimal digits
RECURSIVE DigitsValUpTo(_, _)
DigitsValUpTo(s, k) ==
  IF k = 0 THEN 0 ELSE 10 * DigitsValUpTo(s, k - 1) + DigitVal(At(s, k - 1))

\* value of a string of decimal digits
DigitsVal(s) == DigitsValUpTo(s, Len(s))

\* int(s) succeeds: optional surrounding whitespace, optional sign, digits
\* (digit-group underscores, which int() also accepts, occur in no input drawn)
IntBody(s) ==
  LET t == Strip(s)
  IN  IF Len(t) > 0 /\ At(t, 0) \in {"+", "-"} THEN Slice(t, 1, Len(t)) ELSE t

IsInt(s) == AllDigits(IntBody(s))

\* int(s) when IsInt(s)
IntOf(s) ==
  LET t == Strip(s)
  IN  IF At(t, 0) = "-" THEN 0 - DigitsVal(IntBody(s)) ELSE DigitsVal(IntBody(s))

\* str(n), as the format specs '{n}' and '{n:>w}' render an int
RECURSIVE NatToStr(_)
NatToStr(n) ==
  IF n < 10 THEN Digits[n + 1] ELSE NatToStr(n \div 10) \o Digits[(n % 10) + 1]

IntToStr(n) == IF n < 0 THEN "-" \o NatToStr(0 - n) ELSE NatToStr(n)

RECURSIVE Repeat(_, _)
Repeat(c, n) == IF n <= 0 THEN "" ELSE c \o Repeat(c, n - 1)

\* a variant of RightAlign that does not pad
RightAlignNoPad(s, w) == s

\* the format spec '>w': right-align in a field of w, never truncating
RightAlign(s, w) == Repeat(" ", w - Len(s)) \o s


\* <<q, r>> with a * k = q * u + r and 0 <= r < u, for 0 <= a < u, computed by
\* doubling so that no intermediate value exceeds 2 * u
RECURSIVE MulDivMod(_, _, _)
MulDivMod(a, k, u) ==
  IF k = 0 THEN <<0, 0>>
  ELSE The({LET d == 2 * h[2]
                e == (d % u) + (IF k % 2 = 1 THEN a ELSE 0)
            IN  <<2 * h[1] + (d \div u) + (e \div u), e % u>> :
            h \in {MulDivMod(a, k \div 2, u)}})

RECURSIVE Pow10(_)
Pow10(n) == IF n = 0 THEN 1 ELSE 10 * Pow10(n - 1)

\* float(s) succeeds: optional whitespace and sign, digits with an optional
\* fraction (exponents, inf and nan, which float() also accepts, occur in no
\* input drawn)
FloatBody(s) ==
  LET t == Strip(s)
  IN  IF Len(t) > 0 /\ At(t, 0) \in {"+", "-"} THEN Slice(t, 1, Len(t)) ELSE t

FloatInt(s) ==
  LET b == FloatBody(s)
      p == Find(b, ".", 0)
  IN  IF p = -1 THEN b ELSE Slice(b, 0, p)

FloatFrac(s) ==
  LET b == FloatBody(s)
      p == Find(b, ".", 0)
  IN  IF p = -1 THEN "" ELSE Slice(b, p + 1, Len(b))

IsFloat(s) ==
  /\ Len(FloatInt(s)) + Len(FloatFrac(s)) > 0
  /\ \A i \in 0..(Len(FloatInt(s)) - 1) : IsDigit(At(FloatInt(s), i))
  /\ \A i \in 0..(Len(FloatFrac(s)) - 1) : IsDigit(At(FloatFrac(s), i))

-----------------------------------------------------------------------------
(* extractSwapStats *)

MB == 1048576

\* int(float(s) * 1048576) when IsFloat(s).  float(s) is the double nearest to
\* the decimal n / 10^d; the product with 2^20 is exact and int() truncates.
\* For the two-decimal numbers of the swap summary the exact product
\* n * 2^20 / 100 is an integer or at least 1/25 away from one, far more than
\* the rounding error of the double, so the truncation equals that of the
\* exact product.
MegabytesToBytes(s) ==
  LET den == Pow10(Len(FloatFrac(s)))
      num == DigitsVal(FloatInt(s) \o FloatFrac(s))
      mag == (num \div den) * MB + ((num % den) * MB) \div den
  IN  IF At(Strip(s), 0) = "-" THEN 0 - mag ELSE mag

\* a variant of SwapNumberText that reads the number after the first '='
SwapNumberTextFirst(swapStats, label) ==
  LET numPos == Find(swapStats, "=", 0) + 2
  IN  Slice(swapStats, numPos, Find(swapStats, "M", numPos))

\* the text handed to float(): swapStats[numPos:swapStats.find('M', numPos)]
SwapNumberText(swapStats, label) ==
  LET numPos == Find(swapStats, label, 0) + Len(label) + 3
  IN  Slice(swapStats, numPos, Find(swapStats, "M", numPos))

\* extractSwapStats raises ValueError
extractSwapStatsRaises(swapStats, label) == ~IsFloat(SwapNumberText(swapStats, label))

extractSwapStats(swapStats, label) == MegabytesToBytes(SwapNumberText(swapStats, label))

-----------------------------------------------------------------------------
(* prettySize *)

\* 1 / bytesToKB, 1 / bytesToMB, 1 / bytesToGB: the three factors are the
\* doubles 2^-10, 2^-20 and 2^-30 exactly, so size * factor is the exact
\* quotient for every integer below 2^53
KB == 1024
GB == 1073741824

sizeWidth == 7
sizeDec == 2

\* the digits of f'{size / unit:.{dec}f}' read as an integer: the exact
\* quotient rounded to dec decimals, ties to even, for size >= 0
FixedDigits(sz, unit, dec) ==
  LET scale == Pow10(dec)
      qr    == MulDivMod(sz % unit, scale, unit)
      t     == (sz \div unit) * scale + qr[1]
  IN  IF 2 * qr[2] > unit \/ (2 * qr[2] = unit /\ t % 2 = 1) THEN t + 1 ELSE t

\* f'{size / unit:>{width}.{dec}f}'
FormatFixed(sz, unit, width, dec) ==
  LET h     == FixedDigits(sz, unit, dec)
      scale == Pow10(dec)
      frac  == NatToStr(h % scale)
      body  == NatToStr(h \div scale) \o
               (IF dec = 0 THEN "" ELSE "." \o Repeat("0", dec - Len(frac)) \o frac)
  IN  RightAlign(body, width)

\* a variant of prettySize with decimal units
prettySizeDecimal(sz, width, dec) ==
  IF sz >= 1000000000 THEN FormatFixed(sz, GB, width, dec) \o " GB"
  ELSE IF sz >= 1000000 THEN FormatFixed(sz, MB, width, dec) \o " MB"
  ELSE IF sz >= 1000 THEN FormatFixed(sz, KB, width, dec) \o " KB"
  ELSE RightAlign(IntToStr(sz), width) \o " B"

prettySize(sz, width, dec) ==
  IF sz >= GB THEN FormatFixed(sz, GB, width, dec) \o " GB"
  ELSE IF sz >= MB THEN FormatFixed(sz, MB, width, dec) \o " MB"
  ELSE IF sz >= KB THEN FormatFixed(sz, KB, width, dec) \o " KB"
  ELSE RightAlign(IntToStr(sz), width) \o " B"

-----------------------------------------------------------------------------
(* vmMetrics: the three parsers *)

pageSize == 4096

\* lines[i], where a negative i counts from the end
ListAt(l, i) == IF i < 0 THEN l[Len(l) + i + 1] ELSE l[i + 1]

\* the dictionary after metrics[name] = v
Store(m, name, v) == (name :> v) @@ m

\* range(1, len(lines) - 7) of the vm_stat loop, range(0, lineCount - 2) of the
\* sysctl loop, range(0, lineCount - 1) of the vmmetrics loop
\* a variant of vmstatRange that leaves out six lines at the end
vmstatRangeSix(n) == 1..(n - 7)

vmstatRange(n) == 1..(n - 8)

sysctlRange(n) == 0..(n - 3)

vmmRange(n) == 0..(n - 2)

\* the text handed to int() and the value stored, in each loop
vmstatValue(field) == StripChars(field, {"."})

\* a variant of sysctlValue that scales the pressure level too
sysctlValueScaled(name, v) == v * pageSize

sysctlValue(name, v) ==
  IF name = "kern.memorystatus_vm_pressure_level" THEN v ELSE v * pageSize

\* one iteration of a loop: split the stripped line at the separator and store
\* the value under the name; [metrics, exc]
StoreLine(kind, line, m) ==
  The({LET field == IF kind = "vm_stat" THEN vmstatValue(fields[2]) ELSE fields[2]
       IN  IF Len(fields) < 2 THEN [metrics |-> m, exc |-> "IndexError"]
           ELSE IF ~IsInt(field) THEN [metrics |-> m, exc |-> "ValueError"]
           ELSE [metrics |->
                   Store(m, fields[1],
                         IF kind = "vm_stat" THEN IntOf(field) * pageSize
                         ELSE IF kind = "sysctl"
                              THEN sysctlValue(fields[1], IntOf(field))
                         ELSE IntOf(field)),
                 exc |-> ""] :
       fields \in {separatorSplit(Strip(line))}})

\* the iterations lineIndex = i, i + 1, ..., hi of a loop, stopping at the
\* first exception
RECURSIVE StoreLines(_, _, _, _, _)
StoreLines(kind, ls, i, hi, m) ==
  IF i > hi THEN [metrics |-> m, exc |-> ""]
  ELSE The({IF r.exc # "" THEN r ELSE StoreLines(kind, ls, i + 1, hi, r.metrics) :
            r \in {StoreLine(kind, ListAt(ls, i), m)}})

Lo(S) == IF S = {} THEN 0 ELSE Min(S)

Hi(S) == IF S = {} THEN -1 ELSE 0 - Min({0 - x : x \in S})

\* lines 22-25
ParseVmStat(ls, m) ==
  The({StoreLines("vm_stat", ls, Lo(range), Hi(range), m) :
       range \in {vmstatRange(Len(ls))}})

\* lines 66-68: the three swap entries, stopping at the first exception
StoreSwap(swapStats, m) ==
  IF extractSwapStatsRaises(swapStats, "total")
  THEN [metrics |-> m, exc |-> "ValueError"]
  ELSE LET m1 == Store(m, "Swap total", extractSwapStats(swapStats, "total"))
       IN  IF extractSwapStatsRaises(swapStats, "used")
           THEN [metrics |-> m1, exc |-> "ValueError"]
           ELSE LET m2 == Store(m1, "Swap used", extractSwapStats(swapStats, "used"))
                IN  IF extractSwapStatsRaises(swapStats, "free")
                    THEN [metrics |-> m2, exc |-> "ValueError"]
                    ELSE [metrics |->
                            Store(m2, "Swap free", extractSwapStats(swapStats, "free")),
                          exc |-> ""]

\* lines 54-68
ParseSysctl(ls, m) ==
  The({IF r.exc # "" THEN r ELSE StoreSwap(ListAt(ls, Len(ls) - 2), r.metrics) :
       r \in {The({StoreLines("sysctl", ls, Lo(range), Hi(range), m) :
                   range \in {sysctlRange(Len(ls))}})}})

\* lines 71-75
ParseVmm(ls, m) ==
  The({StoreLines("vmmetrics", ls, Lo(range), Hi(range), m) :
       range \in {vmmRange(Len(ls))}})

\* a variant of sysctlList with the swap usage moved forward
sysctlListSwapThird ==
  <<"sysctl",
    "vm.pageout_inactive_dirty_internal",
    "vm.pageout_inactive_dirty_external",
    "vm.swapusage",
    "kern.memorystatus_vm_pressure_level">>

\* the argument list of the sysctl child
sysctlList ==
  <<"sysctl",
    "vm.pageout_inactive_dirty_internal",
    "vm.pageout_inactive_dirty_external",
    "kern.memorystatus_vm_pressure_level",
    "vm.swapusage">>

-----------------------------------------------------------------------------
(* The three children: what each writes to its standard output *)

\* an amount as sysctl prints it: X.XX
TwoDecimals(n) ==
  NatToStr(n \div 100) \o "." \o NatToStr((n % 100) \div 10) \o NatToStr(n % 10)

\* vm.swapusage: total = 0.00M  used = 0.00M  free = 0.00M  (encrypted)
SwapUsageLine(total, used, free, gap) ==
  "vm.swapusage: total = " \o TwoDecimals(total) \o "M" \o gap \o
  "used = " \o TwoDecimals(used) \o "M" \o gap \o
  "free = " \o TwoDecimals(free) \o "M  (encrypted)"


\* the counters vm_stat reports, in its order; the last six are the event
\* counters that the script leaves out together with the final empty string
VmStatNames ==
  <<"Pages free", "Pages active", "Pages inactive", "Pages speculative",
    "Pages throttled", "Pages wired down", "Pages purgeable",
    "\"Translation faults\"", "Pages copy-on-write", "Pages zero filled",
    "Pages reactivated", "Pages purged", "File-backed pages", "Anonymous pages",
    "Pages stored in compressor", "Pages occupied by compressor",
    "Decompressions", "Compressions", "Pageins", "Pageouts", "Swapins", "Swapouts">>

MaxVmStatLines == 22
MaxProfile == 2
MaxLevel == 4

VmStatName(i) ==
  IF i <= Len(VmStatNames) THEN VmStatNames[i] ELSE "Counter " \o NatToStr(i)

\* page count of counter i: profile 1 grows with i (the compressor holds fewer
\* pages than it occupies, anonymous pages exceed purgeable ones), the other
\* profiles shrink with i (the opposite)
VmStatCount(i, profile) ==
  IF profile = 1 THEN 1000 * i + 7 ELSE 3000 * (MaxVmStatLines + 1 - i) + profile

VmStatHeader == "Mach Virtual Memory Statistics: (page size of 4096 bytes)"

\* counter line i; bad = "nocolon" / "nonint" garbles it
VmStatLine(i, profile, bad) ==
  IF bad = "nocolon" THEN VmStatName(i)
  ELSE VmStatName(i) \o ":" \o
       RightAlign((IF bad = "nonint" THEN "n/a" ELSE NatToStr(VmStatCount(i, profile)))
                    \o ".", 12)

\* a run of vm_stat: the header, n counter lines (line badAt garbled, if any),
\* with or without the final newline
RECURSIVE VmStatBody(_, _)
VmStatBody(d, i) ==
  IF i > d.n THEN ""
  ELSE "\n" \o VmStatLine(i, d.profile, IF i = d.badAt THEN d.bad ELSE "")
       \o VmStatBody(d, i + 1)

VmStatOutput(d) == VmStatHeader \o VmStatBody(d, 1) \o (IF d.newline THEN "\n" ELSE "")

VmStatLineCounts == {0, 6, 7, 8, 12, MaxVmStatLines - 1, MaxVmStatLines}

\* the complete, well-formed run under every profile; under profile 1 also the
\* truncated runs and the runs with a garbled line
VmStatRuns ==
  {d \in [n : VmStatLineCounts, newline : BOOLEAN, profile : 1..MaxProfile,
          badAt : {0, 1, MaxVmStatLines - 1}, bad : {"", "nocolon", "nonint"}] :
     /\ d.badAt <= d.n
     /\ (d.badAt = 0) = (d.bad = "")
     /\ d.profile = 1 \/ (d.n = MaxVmStatLines /\ d.newline /\ d.badAt = 0)}

\* a run of sysctl: one "name: value" line per parameter of its argument
\* list, in the order of the list, except for a parameter the kernel does not
\* know (argument number `unknown`, 0 if none), which yields no line
SysctlLine(name, d) ==
  IF name = "vm.swapusage"
  THEN IF d.profile = 1 THEN SwapUsageLine(102400, 51200, 51200, "  ")
       ELSE SwapUsageLine(0, 0, 0, "  ")
  ELSE name \o ": " \o
       NatToStr(IF name = "kern.memorystatus_vm_pressure_level" THEN d.level
                ELSE IF name = "vm.pageout_inactive_dirty_internal" THEN 100 * d.profile
                ELSE 20 + d.profile)

RECURSIVE SysctlBody(_, _, _)
SysctlBody(args, d, i) ==
  IF i > Len(args) THEN ""
  ELSE (IF i - 1 = d.unknown THEN ""
        ELSE SysctlLine(args[i], d) \o
             (IF i < Len(args) \/ d.newline THEN "\n" ELSE ""))
       \o SysctlBody(args, d, i + 1)

SysctlOutput(args, d) == SysctlBody(args, d, 2)

\* every pressure level with and without the final newline; at level 1 also
\* the other profiles and the runs with an unknown parameter
SysctlRuns ==
  {d \in [level : 0..MaxLevel, newline : BOOLEAN, profile : 1..MaxProfile,
          unknown : 0..(Len(sysctlList) - 1)] :
     (d.profile = 1 /\ d.unknown = 0) \/ (d.level = 1 /\ (d.profile = 1 \/ d.unknown = 0))}

\* a run of vmmetrics
FreePercents == {0, 37, 100}

VmmOutput(d) ==
  IF d.form = "empty" THEN ""
  ELSE "Free memory percent: " \o
       (IF d.form = "nonint" THEN "n/a" ELSE NatToStr(d.percent)) \o
       (IF d.form = "nonewline" THEN "" ELSE "\n")

VmmRuns ==
  {d \in [percent : FreePercents, form : {"ok", "empty", "nonint", "nonewline"}] :
     d.form # "ok" => d.percent = 0}

ExitStatuses == {0, 1}

-----------------------------------------------------------------------------
(* The report, lines 102-186 *)

labelWidthPhysical == 12
labelWidthSwap == 5
labelWidthAdditional == 25

\* a variant of pressureLevelDict with an entry for level 0
pressureLevelDictZero ==
  (0 :> "Normal") @@ (1 :> "Normal") @@ (2 :> "Warn") @@ (3 :> "Critical")

pressureLevelDict == (1 :> "Normal") @@ (2 :> "Warn") @@ (3 :> "Critical")

\* '-' * max(len(heading), labelWidth + sizeWidth + 4)
headDashes(heading, labelWidth) ==
  Repeat("-", Max2(Len(heading), labelWidth + sizeWidth + 4))

\* f'{label:>{labelWidth}}:{prettySize(bytes, sizeWidth, sizeDec)}'
Row(label, labelWidth, bytes) ==
  RightAlign(label, labelWidth) \o ":" \o prettySize(bytes, sizeWidth, sizeDec)

totalBytes(m) ==
  m["Pages active"] + m["Pages inactive"] + m["Pages free"] + m["Pages wired down"]
    + m["Pages throttled"] + m["Pages speculative"] + m["Pages occupied by compressor"]

\* int(totalBytes * availablePercent / 100) for non-negative operands: the
\* product is an integer below 2^53, the float quotient is its correctly
\* rounded quotient by 100, and int() truncates it, which gives the floor of
\* the exact quotient
availableBytes(m) ==
  LET t == totalBytes(m)
      q == m["Free memory percent"]
  IN  (t \div 100) * q + ((t % 100) * q) \div 100

\* the print statements of the script, numbered 1 to 28 in program order,
\* each with the metrics keys looked up since the previous print
LastStatement == 28

Keys(i) ==
  CASE i = 3  -> {"Pages active"}
    [] i = 4  -> {"Pages inactive"}
    [] i = 5  -> {"Pages free"}
    [] i = 6  -> {"Pages wired down"}
    [] i = 7  -> {"Pages throttled"}
    [] i = 8  -> {"Pages speculative"}
    [] i = 9  -> {"Pages occupied by compressor", "Pages stored in compressor"}
    [] i = 15 -> {"Swap used"}
    [] i = 16 -> {"Swap free"}
    [] i = 18 -> {"Swap total"}
    [] i = 23 -> {"Anonymous pages", "Pages purgeable"}
    [] i = 24 -> {"File-backed pages"}
    [] i = 26 -> {"vm.pageout_inactive_dirty_internal",
                  "vm.pageout_inactive_dirty_external"}
    [] i = 27 -> {"Free memory percent"}
    [] i = 28 -> {"kern.memorystatus_vm_pressure_level"}
    [] OTHER  -> {}

\* the statement raises KeyError: a key is missing from metrics, or the
\* pressure level is missing from pressureLevelDict
Raises(i, m) ==
  \/ ~(Keys(i) \subseteq DOMAIN m)
  \/ i = 28 /\ m["kern.memorystatus_vm_pressure_level"] \notin DOMAIN pressureLevelDict

\* the line the statement prints
Line(i, m) ==
  CASE i = 1  -> "Breakdown of physical memory:"
    [] i \in {2, 10} -> headDashes("Breakdown of physical memory:", labelWidthPhysical)
    [] i = 3  -> Row("Active", labelWidthPhysical, m["Pages active"])
    [] i = 4  -> Row("Inactive", labelWidthPhysical, m["Pages inactive"])
    [] i = 5  -> Row("Free", labelWidthPhysical, m["Pages free"])
    [] i = 6  -> Row("Wired", labelWidthPhysical, m["Pages wired down"])
    [] i = 7  -> Row("Throttled", labelWidthPhysical, m["Pages throttled"])
    [] i = 8  -> Row("Speculative", labelWidthPhysical, m["Pages speculative"])
    [] i = 9  -> Row("Compressor", labelWidthPhysical, m["Pages occupied by compressor"])
                   \o " (Uncompressed:"
                   \o prettySize(m["Pages stored in compressor"], sizeWidth, sizeDec)
                   \o ")"
    [] i = 11 -> Row("Total", labelWidthPhysical, totalBytes(m))
    [] i \in {12, 19} -> ""
    [] i = 13 -> "Swap usage:"
    [] i \in {14, 17} -> headDashes("Swap usage:", labelWidthSwap)
    [] i = 15 -> Row("Used", labelWidthSwap, m["Swap used"])
    [] i = 16 -> Row("Free", labelWidthSwap, m["Swap free"])
    [] i = 18 -> Row("Total", labelWidthSwap, m["Swap total"])
    [] i = 20 -> "Additional stats:"
    [] i = 21 -> headDashes("Additional stats:", labelWidthAdditional)
    [] i = 22 -> Row("Compressor is saving", labelWidthAdditional,
                     Max2(m["Pages stored in compressor"]
                            - m["Pages occupied by compressor"], 0))
    [] i = 23 -> Row("Application memory usage", labelWidthAdditional,
                     m["Anonymous pages"] - m["Pages purgeable"])
    [] i = 24 -> Row("Cached files", labelWidthAdditional,
                     m["File-backed pages"] + m["Pages purgeable"])
    [] i = 25 -> Row("top's used", labelWidthAdditional,
                     m["Pages active"] + m["Pages inactive"] + m["Pages wired down"]
                       + m["Pages throttled"] + m["Pages occupied by compressor"])
    [] i = 26 -> Row("Dirty pages", labelWidthAdditional,
                     m["vm.pageout_inactive_dirty_internal"]
                       + m["vm.pageout_inactive_dirty_external"])
    [] i = 27 -> Row("Available memory", labelWidthAdditional, availableBytes(m))
    [] i = 28 -> RightAlign("Memory pressure", labelWidthAdditional) \o ":"
                   \o RightAlign(IntToStr(100 - m["Free memory percent"]), sizeWidth)
                   \o " % ("
                   \o pressureLevelDict[m["kern.memorystatus_vm_pressure_level"]]
                   \o ")"

\* a variant of Statements that looks every key up before it prints anything
StatementsLookupFirst(i, last, m, out) ==
  IF \E j \in i..last : Raises(j, m) THEN [output |-> out, exc |-> "KeyError"]
  ELSE [output |-> out \o [k \in 1..(last - i + 1) |-> Line(i + k - 1, m)], exc |-> ""]

\* statements i to last, stopping at the first exception; [output, exc]
RECURSIVE Statements(_, _, _, _)
Statements(i, last, m, out) ==
  IF i > last THEN [output |-> out, exc |-> ""]
  ELSE IF Raises(i, m) THEN [output |-> out, exc |-> "KeyError"]
  ELSE Statements(i + 1, last, m, Append(out, Line(i, m)))

-----------------------------------------------------------------------------
(* The run of the script *)

Init ==
  /\ pc = "vm_stat"
  /\ running = {}
  /\ spawned = <<>>
  /\ child = <<>>
  /\ returncode = <<>>
  /\ lines = <<>>
  /\ metrics = <<>>
  /\ output = <<>>
  /\ exc = ""
  /\ size = 0
  /\ text = ""
  /\ result = ""

\* subprocess.Popen(argv, stdout = PIPE): the child starts, unless the
\* executable is missing and Popen raises
Popen(argv, next) ==
  /\ \E found \in BOOLEAN :
       IF found
       THEN /\ running' = running \cup {argv[1]}
            /\ spawned' = Append(spawned, argv)
            /\ pc' = next
            /\ exc' = exc
       ELSE /\ pc' = "error"
            /\ exc' = "FileNotFoundError"
            /\ UNCHANGED <<running, spawned>>
  /\ UNCHANGED <<child, returncode, lines, metrics, output, size, text, result>>

\* a variant of Communicated that reads the pipe without waiting for the child
CommunicatedNoWait(cmd, status) ==
  /\ running' = running
  /\ returncode' = Append(returncode, status)

\* .communicate(): wait for the child to exit; its exit status is left in
\* returncode
Communicated(cmd, status) ==
  /\ running' = running \ {cmd}
  /\ returncode' = Append(returncode, status)

\* a variant of Captured that keeps the text of a successful child only
CapturedIfZero(written, status) == IF status = 0 THEN written ELSE ""

\* .communicate()[0].decode('utf-8'): all the child wrote to its standard
\* output; the exit status is not looked at
Captured(written, status) == written

\* the outcome r = [metrics, exc] of a parser decides where the script goes
Parsed(r, next) ==
  /\ metrics' = r.metrics
  /\ exc' = r.exc
  /\ pc' = IF r.exc = "" THEN next ELSE "error"

PopenVmStat == pc = "vm_stat" /\ Popen(<<"vm_stat">>, "vm_stat_wait")

\* lines 21-25
CommunicateVmStat ==
  /\ pc = "vm_stat_wait"
  /\ \E d \in VmStatRuns, status \in ExitStatuses :
       /\ child' = d
       /\ Communicated("vm_stat", status)
       /\ \E ls \in {SplitLines(Captured(VmStatOutput(d), status))} :
            /\ lines' = ls
            /\ \E r \in {ParseVmStat(ls, metrics)} : Parsed(r, "sysctl")
  /\ UNCHANGED <<spawned, output, size, text, result>>

PopenSysctl == pc = "sysctl" /\ Popen(sysctlList, "sysctl_wait")

\* lines 53-68
CommunicateSysctl ==
  /\ pc = "sysctl_wait"
  /\ \E d \in SysctlRuns, status \in ExitStatuses :
       /\ child' = d
       /\ Communicated("sysctl", status)
       /\ \E ls \in {SplitLines(Captured(SysctlOutput(spawned[Len(spawned)], d), status))} :
            /\ lines' = ls
            /\ \E r \in {ParseSysctl(ls, metrics)} : Parsed(r, "vmmetrics")
  /\ UNCHANGED <<spawned, output, size, text, result>>

PopenVmm == pc = "vmmetrics" /\ Popen(<<"vmmetrics">>, "vmmetrics_wait")

\* lines 70-77
CommunicateVmm ==
  /\ pc = "vmmetrics_wait"
  /\ \E d \in VmmRuns, status \in ExitStatuses :
       /\ child' = d
       /\ Communicated("vmmetrics", status)
       /\ \E ls \in {SplitLines(Captured(VmmOutput(d), status))} :
            /\ lines' = ls
            /\ \E r \in {ParseVmm(ls, metrics)} : Parsed(r, "physical")
  /\ UNCHANGED <<spawned, output, size, text, result>>

\* the statements first..last of one table
PrintTable(first, last, next) ==
  /\ \E r \in {Statements(first, last, metrics, output)} :
       /\ output' = r.output
       /\ exc' = r.exc
       /\ pc' = IF r.exc = "" THEN next ELSE "error"
  /\ UNCHANGED <<running, spawned, child, returncode, lines, metrics, size, text, result>>

\* lines 109-140
PrintPhysical == pc = "physical" /\ PrintTable(1, 11, "swap")

\* lines 142-157
PrintSwap == pc = "swap" /\ PrintTable(12, 18, "additional")

\* lines 159-186
PrintAdditional == pc = "additional" /\ PrintTable(19, LastStatement, "done")

Next ==
  \/ PopenVmStat
  \/ CommunicateVmStat
  \/ PopenSysctl
  \/ CommunicateSysctl
  \/ PopenVmm
  \/ CommunicateVmm
  \/ PrintPhysical
  \/ PrintSwap
  \/ PrintAdditional

Spec == Init /\ [][Next]_vars

-----------------------------------------------------------------------------
(* Values of the program's variables while a single function is exercised *)

Idle ==
  /\ running = {}
  /\ spawned = <<>>
  /\ child = <<>>
  /\ returncode = <<>>
  /\ lines = <<>>
  /\ metrics = <<>>
  /\ output = <<>>
  /\ exc = ""

-----------------------------------------------------------------------------
(* prettySize applied to byte counts around its unit thresholds *)

MaxDelta == 4

\* byte counts within MaxDelta of 0 and of each threshold, and the multiples of
\* an eighth of each unit (where the two-decimal rounding meets its ties)
PrettySizes ==
  {t + d : t \in {0, KB, MB, GB}, d \in (0 - MaxDelta)..MaxDelta}
    \cup {u * j + (u \div 8) * m : u \in {KB, MB}, j \in 1..MaxDelta, m \in 0..7}
    \cup {GB + (GB \div 8) * m : m \in 0..7}

InitPretty ==
  /\ pc = "call"
  /\ size \in PrettySizes
  /\ text = ""
  /\ result = ""
  /\ Idle

CallPrettySize ==
  /\ pc = "call"
  /\ result' = prettySize(size, sizeWidth, sizeDec)
  /\ pc' = "return"
  /\ UNCHANGED <<running, spawned, child, returncode, lines, metrics, output, exc,
                 size, text>>

NextPretty == CallPrettySize

SpecPretty == InitPretty /\ [][NextPretty]_vars

-----------------------------------------------------------------------------
(* extractSwapStats applied to swap summary lines *)

MaxSwapStep == 2

\* swap amounts in hundredths of a megabyte
SwapAmounts == {0, 1, 50, 51200, 102400} \cup {100 * k + 37 : k \in 1..MaxSwapStep}

InitSwap ==
  /\ pc = "call"
  /\ size \in [total : SwapAmounts, used : SwapAmounts, free : SwapAmounts,
               gap : {" ", "  "}]
  /\ text = SwapUsageLine(size.total, size.used, size.free, size.gap)
  /\ result = [raises |-> FALSE, value |-> <<>>]
  /\ Idle

\* the three calls of lines 66-68 on one line
CallExtractSwapStats ==
  /\ pc = "call"
  /\ result' =
       IF \E l \in {"total", "used", "free"} : extractSwapStatsRaises(text, l)
       THEN [raises |-> TRUE, value |-> <<>>]
       ELSE [raises |-> FALSE,
             value  |-> <<extractSwapStats(text, "total"),
                          extractSwapStats(text, "used"),
                          extractSwapStats(text, "free")>>]
  /\ pc' = "return"
  /\ UNCHANGED <<running, spawned, child, returncode, lines, metrics, output, exc,
                 size, text>>

NextSwap == CallExtractSwapStats

SpecSwap == InitSwap /\ [][NextSwap]_vars

-----------------------------------------------------------------------------
(* Reading a printed size back *)

EndsWith(s, suffix) ==
  Len(s) >= Len(suffix) /\ SubSeq(s, Len(s) - Len(suffix) + 1, Len(s)) = suffix

\* the text before the unit suffix, without its padding
ShownNumber(s, suffix) == Strip(Slice(s, 0, Len(s) - Len(suffix)))

\* s is digits '.' and exactly two digits
HasTwoDecimals(s) ==
  /\ Len(s) >= 4
  /\ At(s, Len(s) - 3) = "."
  /\ AllDigits(Slice(s, 0, Len(s) - 3))
  /\ AllDigits(Slice(s, Len(s) - 2, Len(s)))

\* the hundredths shown by a two-decimal number
ShownHundredths(s) == DigitsVal(Slice(s, 0, Len(s) - 3) \o Slice(s, Len(s) - 2, Len(s)))

\* h hundredths is sz / unit rounded to the nearest hundredth
NearestHundredth(h, sz, unit) ==
  LET qr == MulDivMod(sz % unit, 100, unit)
      f  == (sz \div unit) * 100 + qr[1]
  IN  \/ h = f /\ 2 * qr[2] <= unit
      \/ h = f + 1 /\ 2 * qr[2] >= unit

ShowsScaled(s, suffix, sz, unit) ==
  /\ EndsWith(s, suffix)
  /\ HasTwoDecimals(ShownNumber(s, suffix))
  /\ NearestHundredth(ShownHundredths(ShownNumber(s, suffix)), sz, unit)

\* C3: for every byte count, prettySize picks the unit by magnitude: sizes of
\* at least 1024^3 end in " GB", of at least 1024^2 in " MB", of at least 1024
\* in " KB", each showing size / unit with exactly two decimals; sizes from 1
\* to 1023 show the raw integer followed by " B".
C3_UnitByMagnitude ==
  (pc = "return" /\ size >= 1) =>
    IF size >= GB THEN ShowsScaled(result, " GB", size, GB)
    ELSE IF size >= MB THEN ShowsScaled(result, " MB", size, MB)
    ELSE IF size >= KB THEN ShowsScaled(result, " KB", size, KB)
    ELSE /\ EndsWith(result, " B")
         /\ AllDigits(ShownNumber(result, " B"))
         /\ DigitsVal(ShownNumber(result, " B")) = size

C3_Witness ==
  /\ pc = "return"
  /\ size = MB + (MB \div 8)
  /\ result = "   1.12 MB"

\* C4 as stated: prettySize(0, 7, 2) is exactly "0 B".
C4_ZeroIsBare == (pc = "return" /\ size = 0) => result = "0 B"

\* C4 amended: prettySize(0, 7, 2) is "0" right-aligned in a field of
\* sizeWidth = 7 characters followed by " B", that is "      0 B".
C4_ZeroIsPadded == (pc = "return" /\ size = 0) => result = "      0 B"

C4_Witness == pc = "return" /\ size = 0 /\ Len(result) = sizeWidth + 2

\* the exact truncation of n hundredths of a megabyte, in bytes
TruncatedBytes(n) == (n \div 100) * MB + ((n % 100) * MB) \div 100

\* C5: on a swap summary line with two-decimal amounts A, B, C, the labels
\* 'total', 'used', 'free' yield the truncation of A, B, C times 1048576, each
\* its own number; 1024.00, 512.00, 512.00 yield 1073741824, 536870912,
\* 536870912.
C5_SwapExtraction ==
  pc = "return" =>
    /\ ~result.raises
    /\ result.value = <<TruncatedBytes(size.total), TruncatedBytes(size.used),
                        TruncatedBytes(size.free)>>
    /\ (size.total = 102400 /\ size.used = 51200 /\ size.free = 51200) =>
         result.value = <<1073741824, 536870912, 536870912>>

C5_Witness ==
  /\ pc = "return"
  /\ text = "vm.swapusage: total = 1024.00M used = 512.00M free = 512.00M  (encrypted)"
  /\ result.value = <<1073741824, 536870912, 536870912>>

-----------------------------------------------------------------------------
(* The run of the script: what the children wrote, and what must come of it *)

Finished == pc \in {"done", "error"}

Level == "kern.memorystatus_vm_pressure_level"

\* the text the child waited for last wrote
Written ==
  CASE Len(returncode) = 1 -> VmStatOutput(child)
    [] Len(returncode) = 2 -> SysctlOutput(spawned[2], child)
    [] Len(returncode) = 3 -> VmmOutput(child)

\* the first statement of the report that raises, 0 if none does
FirstRaising(m) ==
  IF \E i \in 1..LastStatement : Raises(i, m)
  THEN Min({i \in 1..LastStatement : Raises(i, m)})
  ELSE 0

\* C1 as stated: whenever the run ends in an error, no output line was
\* printed before the error.
C1_NoOutputBeforeError == pc = "error" => output = <<>>

\* C1 amended: when the run ends in an error raised while the commands are
\* collected and parsed (Popen fails, a line cannot be parsed), no output line
\* was printed; when it ends in a KeyError of the report (a metric is missing,
\* or the pressure level is not 1, 2 or 3), the lines of the statements before
\* the failing lookup were printed, at least the first heading and its rule,
\* and nothing after them.
C1_OutputUpToFailingLookup ==
  pc = "error" =>
    /\ exc \in {"FileNotFoundError", "IndexError", "ValueError"} => output = <<>>
    /\ exc = "KeyError" =>
         /\ FirstRaising(metrics) >= 3
         /\ Len(output) = FirstRaising(metrics) - 1
         /\ output[1] = "Breakdown of physical memory:"

C1_Witness ==
  /\ pc = "error"
  /\ exc = "KeyError"
  /\ Level \in DOMAIN metrics
  /\ metrics[Level] = 0
  /\ Len(output) = LastStatement - 1

\* C2 as stated: the program never completes successfully after a child
\* exited with a non-zero status.
C2_NonZeroExitFails ==
  pc = "done" => \A i \in 1..Len(returncode) : returncode[i] = 0

\* C2 amended: the exit status of a child is recorded and never examined: the
\* text captured is all the child wrote whatever its status, and a run ends in
\* an error only because Popen fails, a captured line cannot be parsed or a
\* lookup of the report fails; with well-formed output the program prints the
\* three tables and completes even when every child exited non-zero.
C2_ExitStatusIgnored ==
  /\ Len(returncode) >= 1 => lines = SplitLines(Written)
  /\ pc = "error" => exc \in {"FileNotFoundError", "IndexError", "ValueError", "KeyError"}
  /\ pc = "done" => Len(output) = LastStatement

C2_Witness ==
  /\ pc = "done"
  /\ returncode = <<1, 1, 1>>
  /\ Len(output) = LastStatement

\* C6: the pressure level label is "Normal" for 1, "Warn" for 2, "Critical"
\* for 3; for any other level the run ends in an error and no "Memory
\* pressure" row is printed.
C6_PressureLevel ==
  /\ pc = "done" =>
       /\ metrics[Level] \in {1, 2, 3}
       /\ EndsWith(output[LastStatement],
                   IF metrics[Level] = 1 THEN " % (Normal)"
                   ELSE IF metrics[Level] = 2 THEN " % (Warn)"
                   ELSE " % (Critical)")
  /\ (Finished /\ Level \in DOMAIN metrics /\ metrics[Level] \notin {1, 2, 3}) =>
       /\ pc = "error"
       /\ \A i \in 1..Len(output) : Find(output[i], "Memory pressure", 0) = -1

C6_Witness ==
  /\ pc = "error"
  /\ Level \in DOMAIN metrics
  /\ metrics[Level] = MaxLevel
  /\ Len(output) = LastStatement - 1
  /\ Find(output[Len(output)], "Available memory", 0) # -1

\* C7 as stated: sysctl is started with four parameter names followed by
\* vm.swapusage, the last argument.
C7_FourParameters ==
  Len(spawned) >= 2 =>
    /\ spawned[2][1] = "sysctl"
    /\ Len(spawned[2]) = 6
    /\ spawned[2][Len(spawned[2])] = "vm.swapusage"

\* C7 amended: sysctl is started with three parameter names (the two dirty
\* page counts and the pressure level, in this order) followed by
\* vm.swapusage, the last argument.
C7_ThreeParameters ==
  Len(spawned) >= 2 =>
    spawned[2] = <<"sysctl", "vm.pageout_inactive_dirty_internal",
                   "vm.pageout_inactive_dirty_external",
                   "kern.memorystatus_vm_pressure_level", "vm.swapusage">>

C7_Witness ==
  /\ pc = "vmmetrics"
  /\ Len(spawned) = 2
  /\ {"Swap total", "Swap used", "Swap free"} \subseteq DOMAIN metrics

\* C8: vm_stat, sysctl and vmmetrics are started in this order, each after
\* the one before it has exited and its output was captured; at most one child
\* runs at any time; no report line is printed before all three were collected
\* and parsed.
C8_Sequential ==
  /\ Cardinality(running) <= 1
  /\ Len(spawned) <= 3
  /\ \A i \in 1..Len(spawned) : spawned[i][1] = <<"vm_stat", "sysctl", "vmmetrics">>[i]
  /\ Len(returncode) <= Len(spawned)
  /\ Len(spawned) <= Len(returncode) + 1
  /\ running = IF Len(spawned) > Len(returncode) THEN {spawned[Len(spawned)][1]} ELSE {}
  /\ output # <<>> =>
       /\ Len(returncode) = 3
       /\ pc \in {"physical", "swap", "additional", "done", "error"}
       /\ exc \in {"", "KeyError"}
  /\ pc \in {"physical", "swap", "additional", "done"} => Len(returncode) = 3

C8_Witness ==
  /\ running = {"vmmetrics"}
  /\ returncode = <<1, 0>>
  /\ output = <<>>

\* the lines of the vm_stat run that the parser stores
VmStatStored ==
  1..(1 + child.n + (IF child.newline THEN 1 ELSE 0) - 8)

\* C9: of the n lines of the vm_stat text the parser stores exactly the lines
\* 1 .. n-8, each under the name before the colon with the count, its final
\* '.' removed, times 4096; with n <= 8 it stores nothing and raises nothing.
C9_VmStatLines ==
  Len(returncode) = 1 =>
    /\ Len(lines) = 1 + child.n + (IF child.newline THEN 1 ELSE 0)
    /\ child.badAt \notin VmStatStored =>
         /\ exc \notin {"IndexError", "ValueError"}
         /\ DOMAIN metrics = {VmStatName(i) : i \in VmStatStored}
         /\ \A i \in VmStatStored :
              metrics[VmStatName(i)] = VmStatCount(i, child.profile) * 4096
    /\ Len(lines) <= 8 => metrics = <<>> /\ exc \notin {"IndexError", "ValueError"}

C9_Witness ==
  /\ pc = "sysctl"
  /\ child.n = MaxVmStatLines
  /\ child.newline
  /\ Cardinality(DOMAIN metrics) = MaxVmStatLines - 6
  /\ metrics["Pages occupied by compressor"] = 16007 * 4096

\* the parameters whose line a sysctl run writes
SysctlWritten == {i \in 2..Len(spawned[2]) : i - 1 # child.unknown}

\* C10: the sysctl parser stores every line except the last two under its
\* name with its value times 4096, the pressure level unscaled; the
\* second-to-last line is read as the swap summary and yields exactly 'Swap
\* total', 'Swap used' and 'Swap free'.
C10_SysctlLines ==
  Len(returncode) = 2 =>
    /\ (child.newline /\ child.unknown # 4) =>
         /\ exc \notin {"IndexError", "ValueError"}
         /\ DOMAIN metrics \cap {spawned[2][i] : i \in 2..5} =
              {spawned[2][i] : i \in SysctlWritten \ {5}}
         /\ Level \in DOMAIN metrics => metrics[Level] = child.level
         /\ "vm.pageout_inactive_dirty_internal" \in DOMAIN metrics =>
              metrics["vm.pageout_inactive_dirty_internal"] = 100 * child.profile * 4096
         /\ "vm.pageout_inactive_dirty_external" \in DOMAIN metrics =>
              metrics["vm.pageout_inactive_dirty_external"] = (20 + child.profile) * 4096
         /\ {k \in DOMAIN metrics : SubSeq(k, 1, 5) = "Swap "} =
              {"Swap total", "Swap used", "Swap free"}
         /\ metrics["Swap total"] = IF child.profile = 1 THEN 1073741824 ELSE 0
         /\ metrics["Swap used"] = IF child.profile = 1 THEN 536870912 ELSE 0
         /\ metrics["Swap free"] = IF child.profile = 1 THEN 536870912 ELSE 0
    /\ (~child.newline /\ child.unknown = 0) =>
         /\ exc = "ValueError"
         /\ Level \notin DOMAIN metrics
         /\ "vm.pageout_inactive_dirty_external" \in DOMAIN metrics
         /\ "Swap total" \notin DOMAIN metrics

C10_Witness ==
  /\ pc = "vmmetrics"
  /\ Len(returncode) = 2
  /\ Level \in DOMAIN metrics
  /\ metrics[Level] = 2
  /\ metrics["vm.pageout_inactive_dirty_internal"] = 100 * 4096
  /\ metrics["Swap total"] = 1073741824

=============================================================================
